---- MODULE Spec2Model ----
(***************************************************************************)
(* Verification model of xKern/Python-Utils (package pyutils):             *)
(*   - intervalcheck         src/pyutils/__init__.py   (interval gate)     *)
(*   - log                   src/pyutils/__init__.py   (console logger)    *)
(*   - human_readable_size   src/pyutils/__init__.py   (size formatting)   *)
(*   - Logger                src/pyutils/logging.py    (file logger)       *)
(*                                                                         *)
(* A path is a record [dir |-> <<components>>, name |-> file name]; the   *)
(* empty dir <<>> is what os.path.dirname gives for a bare file name (the  *)
(* file then lives in the working directory, which always exists).         *)
(***************************************************************************)
EXTENDS Integers, Sequences, FiniteSets, TLC

VARIABLES
    \* ---- the file system and the clock
    now,        \* time.time(), in whole seconds
    dirs,       \* the directories that exist (besides the working directory)
    markers,    \* marker file path -> modification time, for the files that exist
    disk,       \* log file path -> content, for the files that exist
    \* ---- intervalcheck
    call,       \* the last completed sequential intervalcheck call and its outcome
    lastTrue,   \* path -> time of the last retouch=True call that returned True
    pc,         \* concurrent callers of intervalcheck: position of each
    args,       \* concurrent callers: arguments of the call in progress
    loc,        \* concurrent callers: the locals exists, expired, and the return time
    ret,        \* concurrent callers: outcome of the finished call
    \* ---- Logger
    handles,    \* every file object opened so far: path, buffer, closed, and whether
                \* the file was there before it was opened
    file,       \* Logger.__file: index into handles, 0 for None
    log_path,   \* Logger.__log_path
    write_file, \* Logger.write_file
    lpc,        \* position inside the log_file setter ("idle" outside it)
    lloc,       \* the setter's locals path, file_exists, file
    op,         \* the last log_file assignment or log call started, and what it raised
    stdout,     \* the last line written to standard output
    nlog,       \* number of lines handed to a log file so far
    tpc,        \* concurrent Logger.log callers: position of each
    tline,      \* concurrent Logger.log callers: the formatted line
    tpos,       \* concurrent Logger.log callers: pieces of the line written so far
    \* ---- human_readable_size
    hrs         \* the arguments and, once computed, the returned string

fsVars == <<now, dirs, markers, disk>>

gateVars == <<call, lastTrue, pc, args, loc, ret>>

loggerVars == <<handles, file, log_path, write_file, lpc, lloc, op, stdout, nlog>>

workerVars == <<tpc, tline, tpos>>

vars == <<fsVars, gateVars, loggerVars, workerVars, hrs>>

(***************************************************************************)
(* Bounds of the model.                                                    *)
(***************************************************************************)
MaxTime == 4

(***************************************************************************)
(* Inputs of intervalcheck.  A key is a bare file name in the default mode *)
(* and a file path when use_key_as_path is set.                            *)
(***************************************************************************)
PlainKeys == {[dir |-> <<>>, name |-> "k1"], [dir |-> <<>>, name |-> "k2"]}

PathKeys == {[dir |-> <<>>, name |-> "k1"], [dir |-> <<"tmp">>, name |-> "k1"]}

Durations == {-1, 0, 1, 2, 3600}

KeysFor(use_key_as_path) == IF use_key_as_path THEN PathKeys ELSE PlainKeys

(***************************************************************************)
(* File system primitives used by intervalcheck.                           *)
(***************************************************************************)
\* os.path.dirname(path)
dirname(path) == path.dir

\* the prefixes of a directory: what os.makedirs creates on the way down
Ancestors(dir) == {SubSeq(dir, 1, n) : n \in 1..Len(dir)}

\* os.makedirs(dir, exist_ok=True) fails on the empty name
makedirs_fails(dir) == dir = <<>>

\* os.makedirs(dir, exist_ok=True): dir and its missing ancestors exist afterwards
makedirs(ds, dir) == ds \cup Ancestors(dir)

\* a file can be created at path only if its parent directory exists
ParentExists(ds, path) == path.dir = <<>> \/ path.dir \in ds

\* lines 130-135: the directory to create and the marker's path
marker_dir(key, use_key_as_path) ==
    IF use_key_as_path THEN dirname(key) ELSE <<"intervalcheck">>

marker_path(key, use_key_as_path) ==
    IF use_key_as_path THEN key
    ELSE [dir |-> <<"intervalcheck">> \o key.dir, name |-> key.name]

\* lines 137-144: the expiry decision on the marker as it is at time t
Expired_ge(ms, path, t, duration) ==
    IF path \in DOMAIN ms THEN t - ms[path] >= duration ELSE TRUE

Expired(ms, path, t, duration) ==
    IF path \in DOMAIN ms THEN t - ms[path] > duration ELSE TRUE

\* line 147: whether the marker is rewritten
ShouldRetouch_always(expired, retouch) == expired

ShouldRetouch(expired, retouch) == expired /\ retouch

\* lines 148-149: open(path, 'w+') and write '': the file exists, modified at t
Touch_noop(ms, path, t) == ms

Touch(ms, path, t) == [p \in DOMAIN ms \cup {path} |-> IF p = path THEN t ELSE ms[p]]

NoPath == [dir |-> <<>>, name |-> ""]

\* a Python value handed as logtype: a LogType member, an int, or something else
\* (v is the member's value or the int; 0 for the other kinds)
Val(kind, v) == [kind |-> kind, v |-> v]

NoLocals == [path |-> NoPath, file_exists |-> FALSE, file |-> 0]

NoOp == [name |-> "none", path |-> NoPath, logtype |-> Val("int", 0), exc |-> "none"]

NoSize == [size |-> 0, ib_unit |-> FALSE, out |-> "", done |-> FALSE]

Workers == {"Thread-1", "Thread-2"}

BoolStr(b) == IF b THEN "True" ELSE "False"

NoCall == [key |-> [dir |-> <<>>, name |-> ""], use_key_as_path |-> FALSE,
           duration |-> 0, retouch |-> FALSE, ret |-> "none", at |-> 0]

\* what the caller holds after the call: its arguments, the value returned (or the
\* exception raised) and the time of the call
Outcome(key, duration, use_key_as_path, retouch, r) ==
    [key |-> key, use_key_as_path |-> use_key_as_path, duration |-> duration,
     retouch |-> retouch, ret |-> r, at |-> now]

(***************************************************************************)
(* intervalcheck, a whole call of a single caller (lines 116-151).         *)
(***************************************************************************)
intervalcheck(key, duration, use_key_as_path, retouch) ==
    LET dir == marker_dir(key, use_key_as_path)
        path == marker_path(key, use_key_as_path)
        dirs1 == makedirs(dirs, dir)
        expired == Expired(markers, path, now, duration)
    IN  /\ UNCHANGED <<now, disk, pc, args, loc, ret, loggerVars, workerVars, hrs>>
        /\ IF makedirs_fails(dir)
           THEN \* line 136 raises FileNotFoundError
                /\ call' = Outcome(key, duration, use_key_as_path, retouch, "FileNotFoundError")
                /\ UNCHANGED <<dirs, markers, lastTrue>>
           ELSE /\ dirs' = dirs1
                /\ IF ShouldRetouch(expired, retouch)
                   THEN IF ParentExists(dirs1, path)
                        THEN /\ markers' = Touch(markers, path, now)
                             /\ lastTrue' = IF retouch THEN Touch(lastTrue, path, now)
                                            ELSE lastTrue
                             /\ call' = Outcome(key, duration, use_key_as_path, retouch, "True")
                        ELSE \* line 148 raises FileNotFoundError
                             /\ call' = Outcome(key, duration, use_key_as_path, retouch, "FileNotFoundError")
                             /\ UNCHANGED <<markers, lastTrue>>
                   ELSE /\ call' = Outcome(key, duration, use_key_as_path, retouch, BoolStr(expired))
                        /\ UNCHANGED <<markers, lastTrue>>

Call ==
    \E use_key_as_path \in BOOLEAN, retouch \in BOOLEAN, duration \in Durations :
        \E key \in KeysFor(use_key_as_path) :
            intervalcheck(key, duration, use_key_as_path, retouch)

\* the clock advances between calls
Tick ==
    /\ now < MaxTime
    /\ now' = now + 1
    /\ UNCHANGED <<dirs, markers, disk, gateVars, loggerVars, workerVars, hrs>>

Callers == {"c1", "c2"}

NoArgs == [key |-> [dir |-> <<>>, name |-> ""], use_key_as_path |-> FALSE,
           duration |-> 0, retouch |-> FALSE]

NoLoc == [exists |-> FALSE, expired |-> FALSE, at |-> 0]

\* the parts of the state an intervalcheck run never reads
LoggerIdle ==
    /\ disk = << >>
    /\ handles = << >>
    /\ file = 0
    /\ log_path = NoPath
    /\ write_file = FALSE
    /\ lpc = "idle"
    /\ lloc = NoLocals
    /\ op = NoOp
    /\ stdout = << >>
    /\ nlog = 0

WorkersIdle ==
    /\ tpc = [w \in Workers |-> "idle"]
    /\ tline = [w \in Workers |-> << >>]
    /\ tpos = [w \in Workers |-> 0]

GateIdle ==
    /\ call = NoCall
    /\ lastTrue = << >>
    /\ pc = [c \in Callers |-> "idle"]
    /\ args = [c \in Callers |-> NoArgs]
    /\ loc = [c \in Callers |-> NoLoc]
    /\ ret = [c \in Callers |-> "none"]

SizeIdle == hrs = NoSize

GateInit ==
    /\ now = 0
    /\ dirs = {}
    /\ markers = << >>
    /\ LoggerIdle /\ WorkersIdle /\ SizeIdle
    /\ call = NoCall
    /\ lastTrue = << >>
    /\ pc = [c \in Callers |-> "idle"]
    /\ args = [c \in Callers |-> NoArgs]
    /\ loc = [c \in Callers |-> NoLoc]
    /\ ret = [c \in Callers |-> "none"]

GateNext == Call \/ Tick

SpecGate == GateInit /\ [][GateNext]_vars

(***************************************************************************)
(* intervalcheck called by two concurrent callers: the same code, one      *)
(* step per file system operation.  Nothing in lines 116-151 takes a lock. *)
(***************************************************************************)
RaceKeys == {[dir |-> <<>>, name |-> "k1"]}

RaceDurations == {0, 1, 3600}

PathOf(c) == marker_path(args[c].key, args[c].use_key_as_path)

\* a caller enters intervalcheck (line 129: expired = False)
Start(c) ==
    /\ pc[c] \in {"idle", "done"}
    /\ \E key \in RaceKeys, duration \in RaceDurations, retouch \in BOOLEAN :
          args' = [args EXCEPT ![c] = [key |-> key, use_key_as_path |-> FALSE,
                                       duration |-> duration, retouch |-> retouch]]
    /\ pc' = [pc EXCEPT ![c] = "makedirs"]
    /\ loc' = [loc EXCEPT ![c] = NoLoc]
    /\ ret' = [ret EXCEPT ![c] = "none"]
    /\ UNCHANGED <<fsVars, call, lastTrue, loggerVars, workerVars, hrs>>

\* line 136: os.makedirs(dir, exist_ok=True)
MakeDirs(c) ==
    /\ pc[c] = "makedirs"
    /\ LET dir == marker_dir(args[c].key, args[c].use_key_as_path)
       IN  IF makedirs_fails(dir)
           THEN /\ ret' = [ret EXCEPT ![c] = "FileNotFoundError"]
                /\ pc' = [pc EXCEPT ![c] = "done"]
                /\ UNCHANGED dirs
           ELSE /\ dirs' = makedirs(dirs, dir)
                /\ pc' = [pc EXCEPT ![c] = "exists"]
                /\ UNCHANGED ret
    /\ UNCHANGED <<now, markers, disk, call, lastTrue, args, loc, loggerVars, workerVars, hrs>>

\* line 137: os.path.exists(path); lines 143-144 when it does not
Exists(c) ==
    /\ pc[c] = "exists"
    /\ IF PathOf(c) \in DOMAIN markers
       THEN /\ loc' = [loc EXCEPT ![c].exists = TRUE]
            /\ pc' = [pc EXCEPT ![c] = "stat"]
       ELSE /\ loc' = [loc EXCEPT ![c].expired = Expired(markers, PathOf(c), now, args[c].duration)]
            /\ pc' = [pc EXCEPT ![c] = "retouch"]
    /\ UNCHANGED <<fsVars, call, lastTrue, args, ret, loggerVars, workerVars, hrs>>

\* lines 138-142: getmtime, time.time(), the comparison
Stat(c) ==
    /\ pc[c] = "stat"
    /\ loc' = [loc EXCEPT ![c].expired = Expired(markers, PathOf(c), now, args[c].duration)]
    /\ pc' = [pc EXCEPT ![c] = "retouch"]
    /\ UNCHANGED <<fsVars, call, lastTrue, args, ret, loggerVars, workerVars, hrs>>

\* line 147 tests the local `expired` computed earlier, whatever the marker is now
RetouchDecision_recheck(c) ==
    Expired(markers, PathOf(c), now, args[c].duration)

RetouchDecision(c) == loc[c].expired

\* lines 147-151: rewrite the marker and return True, or return expired
Retouch(c) ==
    /\ pc[c] = "retouch"
    /\ IF ShouldRetouch(RetouchDecision(c), args[c].retouch)
       THEN /\ markers' = Touch(markers, PathOf(c), now)
            /\ ret' = [ret EXCEPT ![c] = "True"]
       ELSE /\ ret' = [ret EXCEPT ![c] = BoolStr(RetouchDecision(c))]
            /\ UNCHANGED markers
    /\ loc' = [loc EXCEPT ![c].at = now]
    /\ pc' = [pc EXCEPT ![c] = "done"]
    /\ UNCHANGED <<now, dirs, disk, call, lastTrue, args, loggerVars, workerVars, hrs>>

RaceNext ==
    \/ \E c \in Callers : Start(c)
    \/ \E c \in Callers : MakeDirs(c)
    \/ \E c \in Callers : Exists(c)
    \/ \E c \in Callers : Stat(c)
    \/ \E c \in Callers : Retouch(c)
    \/ Tick

SpecRace == GateInit /\ [][RaceNext]_vars

(***************************************************************************)
(* Claims on intervalcheck.                                                *)
(***************************************************************************)

\* A step that changes `call` is a call of intervalcheck with the arguments that
\* call' records, made in the state before the step (a call that changes nothing
\* at all is a stuttering step).
CallStep == call' # call

\* C1: in the default mode, with retouch=True: a call on a key whose marker does
\* not exist returns True and leaves the marker in place; a call with d=3600 made
\* at the same instant as a preceding call on that key that returned True returns
\* False; a call made when the marker is more than d seconds old returns True.
C1_FreshGatedExpired ==
    [][(CallStep /\ call'.retouch /\ ~call'.use_key_as_path) =>
          LET path == marker_path(call'.key, FALSE)
              d == call'.duration
          IN  /\ (path \notin DOMAIN markers =>
                     call'.ret = "True" /\ path \in DOMAIN markers')
              /\ (/\ d = 3600
                  /\ call.key = call'.key /\ ~call.use_key_as_path /\ call.retouch
                  /\ call.ret = "True" /\ call.at = now
                  => call'.ret = "False")
              /\ (path \in DOMAIN markers /\ now - markers[path] > d =>
                     call'.ret = "True")]_vars

\* C1 witness: a retouch=True, d=3600 call has just returned False, at the very
\* instant a True call on the same key wrote the marker.
C1_Witness ==
    /\ call.ret = "False" /\ call.duration = 3600 /\ call.retouch
    /\ ~call.use_key_as_path /\ call.at = now
    /\ marker_path(call.key, FALSE) \in DOMAIN lastTrue
    /\ lastTrue[marker_path(call.key, FALSE)] = now
    /\ markers[marker_path(call.key, FALSE)] = now

\* C2: a call with retouch=False leaves every marker as it was: the same files
\* exist, with the same modification times.
C2_NoRetouchFrame ==
    [][(CallStep /\ ~call'.retouch) => markers' = markers]_vars

\* C2 witness: a retouch=False call has returned True on a marker that exists and
\* is still as old as it was (expired).
C2_Witness ==
    /\ call.ret = "True" /\ ~call.retouch /\ call.at = now
    /\ marker_path(call.key, call.use_key_as_path) \in DOMAIN markers
    /\ now - markers[marker_path(call.key, call.use_key_as_path)] > call.duration

\* C10: single caller, retouch=True, d >= 0: a call returns True only when more
\* than d seconds have passed since the last call on that key that returned True;
\* up to and including d seconds after it, the call returns False.
C10_TrueCallsApart ==
    [][LET path == marker_path(call'.key, call'.use_key_as_path)
           d == call'.duration
       IN  (CallStep /\ call'.retouch /\ d >= 0 /\ path \in DOMAIN lastTrue) =>
              /\ (call'.ret = "True" => now - lastTrue[path] > d)
              /\ (now - lastTrue[path] <= d => call'.ret = "False")]_vars

\* C10 witness: a call exactly d seconds (d > 0) after the last True call has
\* returned False.
C10_Witness ==
    /\ call.ret = "False" /\ call.retouch /\ call.duration > 0 /\ call.at = now
    /\ marker_path(call.key, call.use_key_as_path) \in DOMAIN lastTrue
    /\ now - lastTrue[marker_path(call.key, call.use_key_as_path)] = call.duration

\* C9: a concurrent caller that observed "expired" at its check returns True when
\* it reaches the retouch, whatever another caller has written to the marker in
\* between: the check and the retouch are not one atomic step.
C9_StaleExpiredWins ==
    \A c \in Callers :
        (pc[c] = "done" /\ args[c].retouch /\ loc[c].expired) => ret[c] = "True"

\* C9 witness: two callers with retouch=True on the same key have both returned
\* True at the same instant, with a duration of 3600.
C9_Witness ==
    /\ \A c \in Callers :
          /\ pc[c] = "done" /\ ret[c] = "True" /\ args[c].retouch
          /\ args[c].duration = 3600 /\ loc[c].at = now
    /\ PathOf("c1") = PathOf("c2")

(***************************************************************************)
(* Logger (src/pyutils/logging.py) and the module-level log function.      *)
(* A text is a sequence of pieces; a log file's content is a sequence of   *)
(* pieces, each tagged with the file object (index into handles) that      *)
(* wrote it, 0 for what an earlier process left there.                     *)
(***************************************************************************)
MaxOpens == 3

MaxLog == 2

LogPaths == {[dir |-> <<>>, name |-> "app.log"],
             [dir |-> <<"logs">>, name |-> "run.log"],
             [dir |-> <<"missing">>, name |-> "x.log"]}

\* what an earlier session left in logs/run.log
OldContent == <<[h |-> 0, s |-> "[*] old"], [h |-> 0, s |-> "\n"]>>

\* class LogType
LogType == [INFO |-> 0, ADD |-> 1, REMOVE |-> 2, WARNING |-> 3, ERROR |-> 4, DEBUG |-> 5]

Member(name) == Val("LogType", LogType[name])

PyInt(i) == Val("int", i)

\* the symbols list of log and Logger.log
symbols == <<"*", "+", "-", "!", "#", ">", "<">>

\* symbols[i] as Python evaluates it on a list: negative indices count from the end
list_getitem(l, i) ==
    IF 0 <= i /\ i < Len(l) THEN l[i + 1]
    ELSE IF -Len(l) <= i /\ i < 0 THEN l[Len(l) + i + 1]
    ELSE "IndexError"

\* lines 57-63: the symbol of a logtype; IndexError and TypeError fall back to '*'
symbol_of(logtype) ==
    LET idx == IF logtype.kind = "LogType" THEN PyInt(logtype.v) ELSE logtype
        got == IF idx.kind = "int" THEN list_getitem(symbols, idx.v) ELSE "TypeError"
    IN  IF got \in {"IndexError", "TypeError"} THEN "*" ELSE got

\* lines 64-67: the formatted line, without its line break
format_line(entry, logtype, show_caller, show_thread, thread, caller) ==
    <<"[", symbol_of(logtype), "]">>
        \o (IF show_thread THEN <<" [", thread, "]">> ELSE << >>)
        \o (IF show_caller THEN <<" [", caller, "]", " -->">> ELSE << >>)
        \o <<" ", entry>>

\* the text written by line 39
separator == <<"\n", "---appending log---", "\n">>

\* lines 28-32: the path is new and names a parent directory that does not exist
MissingParent(ds, fs, path) ==
    /\ path \notin DOMAIN fs
    /\ dirname(path) # <<>>
    /\ dirname(path) \notin ds

\* line 33: raising leaves the Logger, the files and the directories as they were
RaiseFileNotFound_reset ==
    /\ file' = 0
    /\ log_path' = NoPath
    /\ UNCHANGED <<handles, disk, dirs>>

RaiseFileNotFound == UNCHANGED <<file, log_path, handles, disk, dirs>>

\* line 36: open(path, 'a') creates the file when it is not there
Create(fs, path) ==
    IF path \in DOMAIN fs THEN fs
    ELSE [p \in DOMAIN fs \cup {path} |-> IF p = path THEN << >> ELSE fs[p]]

\* line 38: the separator is written when the file was there before open()
NeedsSeparator_never(file_exists) == FALSE

NeedsSeparator(file_exists) == file_exists

\* line 41: the old file object is closed when there is one and it is open
ShouldClose_never(hs, f) == FALSE

ShouldClose(hs, f) == f # 0 /\ ~hs[f].closed

Tagged(h, text) == [i \in 1..Len(text) |-> [h |-> h, s |-> text[i]]]

\* the buffer of file object h reaches the file, in append mode
FlushTo(fs, hs, h) == [fs EXCEPT ![hs[h].path] = @ \o Tagged(h, hs[h].buf)]

\* file.write(text): the text joins the buffer
BufferWrite(hs, h, text) == [hs EXCEPT ![h].buf = @ \o text]

OpenHandles == {h \in 1..Len(handles) : ~handles[h].closed}

\* lines 26-33: entry of the setter, and the check of the parent directory
log_file_begin(path) ==
    /\ lpc = "idle"
    /\ MissingParent(dirs, disk, path) \/ Len(handles) < MaxOpens
    /\ IF MissingParent(dirs, disk, path)
       THEN /\ op' = [name |-> "log_file", path |-> path, logtype |-> PyInt(0),
                      exc |-> "FileNotFoundError"]
            /\ RaiseFileNotFound
            /\ UNCHANGED <<lpc, lloc>>
       ELSE /\ op' = [name |-> "log_file", path |-> path, logtype |-> PyInt(0),
                      exc |-> "none"]
            /\ lpc' = "open"
            /\ lloc' = [path |-> path, file_exists |-> FALSE, file |-> 0]
            /\ UNCHANGED <<file, log_path, handles, disk, dirs>>
    /\ UNCHANGED <<now, markers, gateVars, write_file, stdout, nlog, workerVars, hrs>>

\* lines 35-36: file_exists, and open(path, 'a')
log_file_open ==
    /\ lpc = "open"
    /\ lloc' = [lloc EXCEPT !.file_exists = lloc.path \in DOMAIN disk,
                            !.file = Len(handles) + 1]
    /\ handles' = Append(handles, [path |-> lloc.path, buf |-> << >>, closed |-> FALSE,
                                   existed |-> lloc.path \in DOMAIN disk])
    /\ disk' = Create(disk, lloc.path)
    /\ lpc' = "separator"
    /\ UNCHANGED <<now, dirs, markers, gateVars, file, log_path, write_file, op,
                   stdout, nlog, workerVars, hrs>>

\* lines 38-39: the separator goes to the new file object
log_file_separator ==
    /\ lpc = "separator"
    /\ handles' = IF NeedsSeparator(lloc.file_exists)
                  THEN BufferWrite(handles, lloc.file, separator)
                  ELSE handles
    /\ lpc' = "close"
    /\ UNCHANGED <<fsVars, gateVars, file, log_path, write_file, lloc, op,
                   stdout, nlog, workerVars, hrs>>

\* lines 41-42: the old file object is closed, which flushes its buffer
log_file_close ==
    /\ lpc = "close"
    /\ IF ShouldClose(handles, file)
       THEN /\ disk' = FlushTo(disk, handles, file)
            /\ handles' = [handles EXCEPT ![file].buf = << >>, ![file].closed = TRUE]
       ELSE UNCHANGED <<disk, handles>>
    /\ lpc' = "assign"
    /\ UNCHANGED <<now, dirs, markers, gateVars, file, log_path, write_file, lloc, op,
                   stdout, nlog, workerVars, hrs>>

\* lines 44-45: the new file object and path replace the old ones
log_file_assign ==
    /\ lpc = "assign"
    /\ file' = lloc.file
    /\ log_path' = lloc.path
    /\ lpc' = "idle"
    /\ UNCHANGED <<fsVars, gateVars, handles, write_file, lloc, op, stdout, nlog,
                   workerVars, hrs>>

\* Logger.log, lines 47-70, by the main thread.  The file object's buffer is
\* written out when it fills up, which a write may or may not cause.
Logger_log(entry, logtype, show_caller, show_thread) ==
    LET line == format_line(entry, logtype, show_caller, show_thread,
                            "MainThread", "main") \o <<"\n">>
    IN  /\ lpc = "idle"
        /\ file = 0 \/ nlog < MaxLog
        /\ op' = [name |-> "Logger.log", path |-> NoPath, logtype |-> logtype,
                  exc |-> "none"]
        /\ stdout' = line
        /\ IF file # 0
           THEN /\ nlog' = nlog + 1
                /\ \E full \in BOOLEAN :
                      LET written == BufferWrite(handles, file, line)
                      IN  IF full
                          THEN /\ disk' = FlushTo(disk, written, file)
                               /\ handles' = [written EXCEPT ![file].buf = << >>]
                          ELSE /\ handles' = written
                               /\ UNCHANGED disk
           ELSE UNCHANGED <<nlog, handles, disk>>
        /\ UNCHANGED <<now, dirs, markers, gateVars, file, log_path, write_file, lpc,
                       lloc, workerVars, hrs>>

\* the module-level log of src/pyutils/__init__.py, lines 301-321: print(line)
log(entry, logtype, show_caller, show_thread) ==
    /\ lpc = "idle"
    /\ op' = [name |-> "log", path |-> NoPath, logtype |-> logtype, exc |-> "none"]
    /\ stdout' = format_line(entry, logtype, show_caller, show_thread,
                             "MainThread", "main") \o <<"\n">>
    /\ UNCHANGED <<fsVars, gateVars, handles, file, log_path, write_file, lpc, lloc,
                   nlog, workerVars, hrs>>

\* Logger.__init__, lines 16-19, in a directory that holds logs/ and may hold an
\* older logs/run.log
LoggerInit ==
    /\ now = 0
    /\ dirs = {<<"logs">>}
    /\ markers = << >>
    /\ disk \in {<< >>, [p \in {[dir |-> <<"logs">>, name |-> "run.log"]} |-> OldContent]}
    /\ handles = << >>
    /\ file = 0
    /\ log_path = NoPath
    /\ write_file = FALSE
    /\ lpc = "idle"
    /\ lloc = NoLocals
    /\ op = NoOp
    /\ stdout = << >>
    /\ nlog = 0
    /\ GateIdle /\ WorkersIdle /\ SizeIdle

\* the calls the file life cycle is checked with
FileLogTypes == {Member("INFO"), PyInt(4)}

FileLogFlags == {<<FALSE, FALSE>>, <<TRUE, TRUE>>}

LoggerNext ==
    \/ \E path \in LogPaths : log_file_begin(path)
    \/ log_file_open
    \/ log_file_separator
    \/ log_file_close
    \/ log_file_assign
    \/ \E logtype \in FileLogTypes, fl \in FileLogFlags :
          Logger_log("m", logtype, fl[1], fl[2])

SpecLogger == LoggerInit /\ [][LoggerNext]_vars

(***************************************************************************)
(* Claims on the Logger's file life cycle.                                 *)
(***************************************************************************)

\* C4 as stated: in every reachable state at most one file object is open.
C4_AtMostOneOpenAlways == Cardinality(OpenHandles) <= 1

\* C4 as amended: outside a log_file assignment at most one file object is open,
\* and it is the Logger's own; inside one, only the Logger's previous file object
\* and the newly opened one can be open, and the previous one is closed before
\* the new one replaces it.
C4_OneOpenOutsideSetter ==
    /\ lpc = "idle" =>
          /\ Cardinality(OpenHandles) <= 1
          /\ file # 0 => OpenHandles = {file}
    /\ lpc # "idle" => OpenHandles \subseteq {file, lloc.file}
    /\ lpc = "assign" => OpenHandles = {lloc.file}

\* C4 witness: a second assignment has completed: the first file object is closed
\* and the Logger holds the second, the only one open.
C4_Witness ==
    /\ lpc = "idle" /\ Len(handles) >= 2 /\ file = 2
    /\ handles[1].closed /\ OpenHandles = {2}

\* C5: an assignment of a path that does not exist and whose parent directory
\* does not exist raises FileNotFoundError, creates no file and no directory, and
\* leaves the Logger's path and file object as they were.
C5_MissingParentRaises ==
    [][(op' # op /\ op'.name = "log_file" /\ MissingParent(dirs, disk, op'.path)) =>
          /\ op'.exc = "FileNotFoundError"
          /\ disk' = disk /\ dirs' = dirs
          /\ log_path' = log_path /\ file' = file /\ handles' = handles
          /\ lpc' = "idle"]_vars

\* C5 witness: the assignment has raised on a Logger that has a log file open.
C5_Witness ==
    /\ op.name = "log_file" /\ op.exc = "FileNotFoundError"
    /\ op.path \notin DOMAIN disk /\ op.path.dir \notin dirs
    /\ file # 0 /\ ~handles[file].closed /\ log_path = handles[file].path

\* what file object h has written: the part that reached the file, then its buffer
OnDisk(h) == SelectSeq(disk[handles[h].path], LAMBDA piece : piece.h = h)

Stream(h) == [i \in 1..Len(OnDisk(h)) |-> OnDisk(h)[i].s] \o handles[h].buf

StartsWithSeparator(text) ==
    Len(text) >= Len(separator) /\ SubSeq(text, 1, Len(separator)) = separator

HasSeparator(text) == \E i \in 1..Len(text) : text[i] = separator[2]

\* C6: once the setter is past its separator step, a file object opened on a
\* file that was already there has the separator as the first thing it wrote,
\* ahead of every entry (in its buffer and in the file), and a file object that
\* created its file has written no separator.
C6_SeparatorFirst ==
    \A h \in 1..Len(handles) :
        (lpc \in {"open", "separator"} /\ h = lloc.file) \/
            /\ handles[h].existed =>
                  /\ StartsWithSeparator(Stream(h))
                  /\ OnDisk(h) # << >> =>
                        StartsWithSeparator([i \in 1..Len(OnDisk(h)) |-> OnDisk(h)[i].s])
            /\ ~handles[h].existed => ~HasSeparator(Stream(h))

\* C6 witness: the file left by an earlier session now holds, after the old
\* content, the separator and then an entry of this session.
C6_Witness ==
    \E h \in 1..Len(handles) :
        /\ handles[h].existed
        /\ Len(OnDisk(h)) > Len(separator)
        /\ \E i \in 1..Len(disk[handles[h].path]) :
              /\ disk[handles[h].path][i].h = 0
              /\ \A j \in 1..Len(disk[handles[h].path]) :
                    disk[handles[h].path][j].h = h => i < j

(***************************************************************************)
(* The severity symbol: log and Logger.log on every kind of logtype.       *)
(***************************************************************************)
MaxSeverity == 8

LogTypeInputs ==
    {Member(name) : name \in DOMAIN LogType}
        \cup {PyInt(i) : i \in (-MaxSeverity..MaxSeverity) \cup {17}}
        \cup {Val("str", 0), Val("float", 0), Val("NoneType", 0)}

Entries == {"a", "b"}

LogInit ==
    /\ now = 0
    /\ dirs = {}
    /\ markers = << >>
    /\ LoggerIdle /\ GateIdle /\ WorkersIdle /\ SizeIdle

LogNext ==
    \/ \E entry \in Entries, logtype \in LogTypeInputs, sc \in BOOLEAN, st \in BOOLEAN :
          log(entry, logtype, sc, st)
    \/ \E entry \in Entries, logtype \in LogTypeInputs, sc \in BOOLEAN, st \in BOOLEAN :
          Logger_log(entry, logtype, sc, st)

SpecLog == LogInit /\ [][LogNext]_vars

\* the symbol the specification assigns to the six severities
ClaimedSymbol == <<"*", "+", "-", "!", "#", ">">>

\* C3: the line printed by the last log call starts with '[', the severity's
\* symbol, ']' for the six severities 0..5 (given as LogType or as int), and with
\* '[*]' for every other logtype; the call does not raise.
C3_SymbolOrStar ==
    op.name \in {"log", "Logger.log"} =>
        /\ op.exc = "none"
        /\ stdout[1] = "[" /\ stdout[3] = "]"
        /\ stdout[2] = IF op.logtype.kind \in {"LogType", "int"} /\ op.logtype.v \in 0..5
                       THEN ClaimedSymbol[op.logtype.v + 1]
                       ELSE "*"

(***************************************************************************)
(* Logger.log called by two threads on a Logger whose log file is open.    *)
(* Nothing in Logger holds a lock (lines 16-19 create none) and a text     *)
(* file object is not safe for concurrent writes: two write calls on it    *)
(* race, and the pieces of their lines may reach the buffer interleaved.   *)
(***************************************************************************)
AppLog == [dir |-> <<>>, name |-> "app.log"]

\* the state after logger.log_file = 'app.log' in an empty directory
ConcInit ==
    /\ now = 0
    /\ dirs = {}
    /\ markers = << >>
    /\ disk = [p \in {AppLog} |-> << >>]
    /\ handles = <<[path |-> AppLog, buf |-> << >>, closed |-> FALSE, existed |-> FALSE]>>
    /\ file = 1
    /\ log_path = AppLog
    /\ write_file = FALSE
    /\ lpc = "idle"
    /\ lloc = [path |-> AppLog, file_exists |-> FALSE, file |-> 1]
    /\ op = [name |-> "log_file", path |-> AppLog, logtype |-> PyInt(0), exc |-> "none"]
    /\ stdout = << >>
    /\ nlog = 0
    /\ GateIdle /\ WorkersIdle /\ SizeIdle

WorkerLine(w, entry, logtype) ==
    format_line(entry, logtype, FALSE, FALSE, w, "work") \o <<"\n">>

\* lines 57-67: the line is formatted
W_format(w, entry, logtype) ==
    /\ tpc[w] = "idle"
    /\ nlog < MaxLog
    /\ nlog' = nlog + 1
    /\ tline' = [tline EXCEPT ![w] = WorkerLine(w, entry, logtype)]
    /\ tpos' = [tpos EXCEPT ![w] = 0]
    /\ tpc' = [tpc EXCEPT ![w] = "stdout"]
    /\ UNCHANGED <<fsVars, gateVars, handles, file, log_path, write_file, lpc, lloc,
                   op, stdout, hrs>>

\* line 68: sys.stdout.write(line); line 69: if self.__file
W_stdout(w) ==
    /\ tpc[w] = "stdout"
    /\ stdout' = tline[w]
    /\ tpc' = [tpc EXCEPT ![w] = IF file # 0 THEN "file" ELSE "idle"]
    /\ UNCHANGED <<fsVars, gateVars, handles, file, log_path, write_file, lpc, lloc,
                   op, nlog, tline, tpos, hrs>>

\* line 70: self.__file.write(line), with no lock held
W_write(w) ==
    /\ tpc[w] = "file"
    /\ handles' = BufferWrite(handles, file, <<tline[w][tpos[w] + 1]>>)
    /\ tpos' = [tpos EXCEPT ![w] = @ + 1]
    /\ tpc' = [tpc EXCEPT ![w] = IF tpos[w] + 1 = Len(tline[w]) THEN "idle" ELSE "file"]
    /\ UNCHANGED <<fsVars, gateVars, file, log_path, write_file, lpc, lloc, op,
                   stdout, nlog, tline, hrs>>

ConcNext ==
    \/ \E w \in Workers, entry \in Entries, logtype \in FileLogTypes :
          W_format(w, entry, logtype)
    \/ \E w \in Workers : W_stdout(w)
    \/ \E w \in Workers : W_write(w)

SpecLogConc == ConcInit /\ [][ConcNext]_vars

WorkerLines ==
    {WorkerLine(w, entry, logtype) : w \in Workers, entry \in Entries,
                                     logtype \in FileLogTypes}

RECURSIVE IsLines(_)
IsLines(text) ==
    \/ text = << >>
    \/ \E l \in WorkerLines :
          /\ Len(l) <= Len(text)
          /\ SubSeq(text, 1, Len(l)) = l
          /\ IsLines(SubSeq(text, Len(l) + 1, Len(text)))

\* C7: whenever no write to the file object is in progress, the file object
\* holds a sequence of whole formatted lines, each from one log call.
C7_WholeLines ==
    (\A w \in Workers : tpc[w] # "file") => IsLines(handles[file].buf)

(***************************************************************************)
(* human_readable_size (src/pyutils/__init__.py, lines 324-349).           *)
(* The quotient size / divider is kept exact as whole part and remainder;  *)
(* round(result, 2) yields hundredths.  Sizes stay below 10^9 so that      *)
(* every number of the computation fits a 32-bit integer.                  *)
(***************************************************************************)
MaxSize == 1200

SampleSizes == {1500, 1999, 2047, 2048, 10239, 999995, 999999, 1000000, 1048576,
                1500000, 1572864, 123456789, 999999999}

Sizes == (0..MaxSize) \cup SampleSizes

\* line 335, each unit as its characters
units == << <<"b", "y", "t", "e", "s">>, <<"K", "B">>, <<"M", "B">>, <<"G", "B">>,
            <<"T", "B">>, <<"P", "B">> >>

\* line 337
unit_size(ib_unit) == IF ib_unit THEN 1024 ELSE 1000

RECURSIVE pow(_, _)
pow(b, e) == IF e = 0 THEN 1 ELSE b * pow(b, e - 1)

\* line 341: the loop stops at the first divider above the size
LoopBreaks_ge(divider, size) == divider >= size

LoopBreaks(divider, size) == divider > size

\* lines 339-344: the loop over the units, from index on; sel is what the
\* iterations so far selected: the unit's index (0 with divider 0 when none was)
RECURSIVE scan_units(_, _, _, _)
scan_units(size, step, index, sel) ==
    IF index >= Len(units) THEN sel
    ELSE LET divider == pow(step, index)
         IN  IF LoopBreaks(divider, size) THEN sel
             ELSE scan_units(size, step, index + 1, [index |-> index, divider |-> divider])

\* str.replace(old, new) on a sequence of characters
RECURSIVE replace(_, _, _)
replace(chars, old, new) ==
    IF chars = << >> THEN << >>
    ELSE (IF Head(chars) = old THEN new ELSE <<Head(chars)>>) \o replace(Tail(chars), old, new)

RECURSIVE join(_)
join(chars) == IF chars = << >> THEN "" ELSE Head(chars) \o join(Tail(chars))

\* line 347: round(size / divider, 2), in hundredths.  A quotient exactly halfway
\* between two hundredths is a binary fraction when the divider is a power of
\* 1024, and rounds to the even one; with a power of 1000 it is not, the float
\* nearest to it lies on one side or the other, and `up` says which.
round2(size, divider, exact_ties, up) ==
    LET whole == size \div divider
        rem == size % divider
        q == (rem * 100) \div divider
        twice == 2 * ((rem * 100) % divider)
        h == whole * 100 + q
    IN  IF twice < divider THEN h
        ELSE IF twice > divider THEN h + 1
        ELSE IF exact_ties THEN (IF h % 2 = 0 THEN h ELSE h + 1)
        ELSE IF up THEN h + 1 ELSE h

\* lines 348-349: "%d" when int(result) == result, else "%.2f"
format_number(h) ==
    IF h % 100 = 0 THEN ToString(h \div 100)
    ELSE ToString(h \div 100) \o "." \o ToString((h % 100) \div 10) \o ToString(h % 10)

human_readable_size(size, ib_unit, up) ==
    LET step == unit_size(ib_unit)
        sel == scan_units(size, step, 0, [index |-> 0, divider |-> 0])
        unit == units[sel.index + 1]
        selected_unit == IF ib_unit THEN replace(unit, "B", <<"i", "B">>) ELSE unit
        h == IF sel.divider = 0 THEN 0 ELSE round2(size, sel.divider, ib_unit, up)
    IN  format_number(h) \o " " \o join(selected_unit)

SizeInit ==
    /\ now = 0
    /\ dirs = {}
    /\ markers = << >>
    /\ LoggerIdle /\ GateIdle /\ WorkersIdle
    /\ hrs \in [size : Sizes, ib_unit : BOOLEAN, out : {""}, done : {FALSE}]

HumanReadableSize ==
    /\ ~hrs.done
    /\ \E up \in BOOLEAN :
          hrs' = [hrs EXCEPT !.out = human_readable_size(hrs.size, hrs.ib_unit, up),
                             !.done = TRUE]
    /\ UNCHANGED <<fsVars, gateVars, loggerVars, workerVars>>

SizeNext == HumanReadableSize

SpecSize == SizeInit /\ [][SizeNext]_vars

\* the number of times size can be divided by step before it drops below step:
\* the largest i with step^i <= size
RECURSIVE Magnitude(_, _)
Magnitude(size, step) == IF size < step THEN 0 ELSE 1 + Magnitude(size \div step, step)

UnitNames(ib_unit) ==
    IF ib_unit THEN <<"bytes", "KiB", "MiB", "GiB", "TiB", "PiB">>
    ELSE <<"bytes", "KB", "MB", "GB", "TB", "PB">>

\* a number of hundredths as text: an integer when whole, two decimals otherwise
Hundredths(h) ==
    LET d == h % 100
    IN  IF d = 0 THEN ToString(h \div 100)
        ELSE ToString(h \div 100) \o "." \o (IF d < 10 THEN "0" ELSE "") \o ToString(d)

\* the texts that show size / divider rounded to the nearest hundredth
RoundedTexts(size, divider) ==
    LET whole == size \div divider
        rem == size % divider
    IN  {Hundredths(100 * whole + k) : k \in {k \in 0..100 :
            /\ 2 * (100 * rem - k * divider) <= divider
            /\ 2 * (k * divider - 100 * rem) <= divider}}

\* C8 as stated: the four examples, with 1500000 giving '1.5 MB', and the number
\* printed as an integer exactly when the quotient is whole.
C8_AsClaimed ==
    hrs.done =>
        LET i == IF Magnitude(hrs.size, unit_size(hrs.ib_unit)) > 5 THEN 5
                 ELSE Magnitude(hrs.size, unit_size(hrs.ib_unit))
            divider == pow(unit_size(hrs.ib_unit), i)
            unit == UnitNames(hrs.ib_unit)[i + 1]
        IN  /\ (hrs.size = 1000 /\ ~hrs.ib_unit) => hrs.out = "1 KB"
            /\ (hrs.size = 1024 /\ hrs.ib_unit) => hrs.out = "1 KiB"
            /\ hrs.size = 999 => hrs.out = "999 bytes"
            /\ (hrs.size = 1500000 /\ ~hrs.ib_unit) => hrs.out = "1.5 MB"
            /\ (hrs.out = ToString(hrs.size \div divider) \o " " \o unit)
                   <=> (hrs.size % divider = 0)

\* C8 as amended: the unit is the largest whose threshold step^i does not exceed
\* the size (bytes for 0), and the number is the quotient rounded to two
\* decimals, printed as an integer when the rounded value is whole and with
\* exactly two decimals otherwise: 1000 -> '1 KB', 1024 binary -> '1 KiB',
\* 999 -> '999 bytes', 1500000 -> '1.50 MB'.
C8_UnitAndTwoDecimals ==
    hrs.done =>
        LET i == IF Magnitude(hrs.size, unit_size(hrs.ib_unit)) > 5 THEN 5
                 ELSE Magnitude(hrs.size, unit_size(hrs.ib_unit))
            divider == pow(unit_size(hrs.ib_unit), i)
            unit == UnitNames(hrs.ib_unit)[i + 1]
        IN  /\ hrs.out \in {text \o " " \o unit : text \in RoundedTexts(hrs.size, divider)}
            /\ (hrs.size = 1000 /\ ~hrs.ib_unit) => hrs.out = "1 KB"
            /\ (hrs.size = 1024 /\ hrs.ib_unit) => hrs.out = "1 KiB"
            /\ hrs.size = 999 => hrs.out = "999 bytes"
            /\ (hrs.size = 1500000 /\ ~hrs.ib_unit) => hrs.out = "1.50 MB"

\* C8 witness: 1500000 bytes have been formatted with decimal units.
C8_Witness ==
    hrs.done /\ hrs.size = 1500000 /\ ~hrs.ib_unit /\ hrs.out = "1.50 MB"

====
